---- MODULE Spec2Model ----
(***************************************************************************)
(* Model of the pokemon identifier column codec (PokemonId over a KSUID),  *)
(* the CSV-row transform, insert_pokemon and the lookup handler.           *)
(*                                                                         *)
(* Text is a sequence of Unicode code points, a byte string a sequence of  *)
(* numbers 0..255.  A KSUID is a sequence of 20 bytes, timestamp first.    *)
(***************************************************************************)
EXTENDS Integers, Sequences, FiniteSets, TLC

VARIABLES
    kid,        \* codec: the PokemonId under test (20 raw bytes), or <<>>
    column,     \* codec: the bytes last handed to / read from the id column
    decoded,    \* codec: result of the last Decode::decode
    cstep,      \* codec: "idle" | "new" | "encoded" | "decoded" | "corrupt"
    cells,      \* ingest: the cells of the CSV record being read
    csv,        \* ingest: the deserialized PokemonCsv, or the deserializer's error
    trow,       \* ingest: the PokemonTableRow made from csv
    tstep,      \* ingest: "idle" | "read" | "parsed" | "transformed"
    rows,       \* store: the rows of table pokemon
    inserted,   \* store: the PokemonTableRows whose insert_pokemon returned Ok
    pool,       \* api: whether the static POOL is initialised
    last,       \* the last insert_pokemon / handler call and what it returned
    pair        \* ingest of two records side by side: cells, PokemonCsvs, rows

codecVars == <<kid, column, decoded, cstep>>
ingestVars == <<cells, csv, trow, tstep>>
storeVars == <<rows, inserted, pool, last>>
pairVars == <<pair>>
vars == <<kid, column, decoded, cstep, cells, csv, trow, tstep, rows, inserted, pool, last, pair>>

----------------------------------------------------------------------------
(* Bounds of the model *)

\* seeds of the sampled clock readings (timestamp bytes): 0..MaxTsSeed
MaxTsSeed == 4
\* seeds of the sampled random payloads: 0..MaxPaySeed
MaxPaySeed == 5
\* rows are made within one clock second, seed RowClockSeed, with payload
\* seeds 0..RowPaySeed
RowClockSeed == 2
RowPaySeed == 1

----------------------------------------------------------------------------
(* KSUID layout (svix_ksuid::Ksuid, used at db.rs:10,13) *)

TIMESTAMP_BYTES == 4
PAYLOAD_BYTES == 16
BYTES == 20
\* length of the base62 rendering of a KSUID
BASE62_LEN == 27
BASE == 62

\* Code points used below
ChZero == 48
ChUpperA == 65
ChLowerA == 97

----------------------------------------------------------------------------
(* Generic helpers on sequences *)

RECURSIVE Repeat(_, _)
Repeat(x, n) == IF n <= 0 THEN <<>> ELSE <<x>> \o Repeat(x, n - 1)

\* the last n elements of s (all of s when it is shorter)
LastN(s, n) == IF Len(s) <= n THEN s ELSE SubSeq(s, Len(s) - n + 1, Len(s))

\* s without its leading zeros
RECURSIVE StripZeros(_)
StripZeros(s) ==
    IF s = <<>> THEN <<>>
    ELSE IF Head(s) = 0 THEN StripZeros(Tail(s)) ELSE s

----------------------------------------------------------------------------
(* Ksuid::new(None, None): 4 big-endian timestamp bytes, 16 random bytes.  *)
(* The clock and the random source are sampled by seeds: seed 0 is all     *)
(* zero bytes, seed 1 all 0xFF, the others a fixed scatter.                *)

SampleBytes(seed, n, salt) ==
    [i \in 1..n |->
        IF seed = 0 THEN 0
        ELSE IF seed = 1 THEN 255
        ELSE (seed * 89 + i * (53 + salt) + seed * i * 7) % 256]

KsuidNew(tseed, pseed) ==
    SampleBytes(tseed, TIMESTAMP_BYTES, 0) \o SampleBytes(pseed, PAYLOAD_BYTES, 100)

\* PokemonId::new
PokemonIdNew(tseed, pseed) == KsuidNew(tseed, pseed)

----------------------------------------------------------------------------
(* Base62 over big-endian byte strings *)

\* digit 0..61 -> code point, alphabet 0-9 A-Z a-z
Base62Char(d) ==
    IF d < 10 THEN ChZero + d
    ELSE IF d < 36 THEN ChUpperA + (d - 10)
    ELSE ChLowerA + (d - 36)

\* code point -> digit, or -1 when outside the alphabet
Base62Digit(c) ==
    IF c >= ChZero /\ c <= ChZero + 9 THEN c - ChZero
    ELSE IF c >= ChUpperA /\ c <= ChUpperA + 25 THEN c - ChUpperA + 10
    ELSE IF c >= ChLowerA /\ c <= ChLowerA + 25 THEN c - ChLowerA + 36
    ELSE -1

\* long division of a big-endian byte string by BASE: <<quotient, remainder>>
RECURSIVE DivStep(_, _, _)
DivStep(bytes, carry, acc) ==
    IF bytes = <<>> THEN <<acc, carry>>
    ELSE LET cur == carry * 256 + Head(bytes)
         IN  DivStep(Tail(bytes), cur % BASE, Append(acc, cur \div BASE))

\* the base62 digits of a byte string, most significant first, no leading zeros
RECURSIVE Base62Digits(_, _)
Base62Digits(bytes, acc) ==
    LET n == StripZeros(bytes)
    IN  IF n = <<>> THEN acc
        ELSE LET qr == DivStep(n, 0, <<>>)
             IN  Base62Digits(qr[1], <<qr[2]>> \o acc)

\* the digits as text, left-padded with '0' to 27 characters
Base62Text(raw) ==
    LET ds   == Base62Digits(raw, <<>>)
        text == [i \in 1..Len(ds) |-> Base62Char(ds[i])]
    IN  Repeat(ChZero, BASE62_LEN - Len(text)) \o text

\* the identifiers the sampled clock and random source can produce, with
\* their renderings computed once
SampledIds ==
    {KsuidNew(t, p) : t \in 0..MaxTsSeed, p \in 0..MaxPaySeed}
    \cup {KsuidNew(RowClockSeed, p) : p \in 0..RowPaySeed}
Base62TextOf == [raw \in SampledIds |-> Base62Text(raw)]

\* a plausible slip: the rendering without its zero padding
ToBase62Unpadded(raw) ==
    LET ds == Base62Digits(raw, <<>>)
    IN  [i \in 1..Len(ds) |-> Base62Char(ds[i])]

\* Ksuid::to_base62
ToBase62(raw) ==
    IF raw \in SampledIds THEN Base62TextOf[raw] ELSE Base62Text(raw)

\* bytes * BASE + d, little-endian working form
RECURSIVE MulAddLE(_, _)
MulAddLE(le, carry) ==
    IF le = <<>> THEN (IF carry = 0 THEN <<>> ELSE <<carry % 256>> \o MulAddLE(<<>>, carry \div 256))
    ELSE LET cur == Head(le) * BASE + carry
         IN  <<cur % 256>> \o MulAddLE(Tail(le), cur \div 256)

Reverse(s) == [i \in 1..Len(s) |-> s[Len(s) + 1 - i]]

\* the big-endian value of a digit string
RECURSIVE Base62Value(_, _)
Base62Value(digits, le) ==
    IF digits = <<>> THEN Reverse(le)
    ELSE Base62Value(Tail(digits), MulAddLE(le, Head(digits)))

\* a character outside the alphabet is an error; the value's low 20 bytes,
\* left-padded with zero bytes, are the KSUID
Base62Parse(text) ==
    LET ds == [i \in 1..Len(text) |-> Base62Digit(text[i])]
    IN  IF \E i \in 1..Len(ds) : ds[i] < 0
        THEN [ok |-> FALSE, err |-> "Base62"]
        ELSE LET v == LastN(StripZeros(Base62Value(ds, <<>>)), BYTES)
             IN  [ok |-> TRUE, val |-> Repeat(0, BYTES - Len(v)) \o v]

\* the parses of the sampled identifiers' renderings, computed once
SampledTexts == {Base62TextOf[raw] : raw \in SampledIds}
Base62ParseOf == [text \in SampledTexts |-> Base62Parse(text)]

\* Ksuid::from_base62
FromBase62(text) ==
    IF text \in SampledTexts THEN Base62ParseOf[text] ELSE Base62Parse(text)

----------------------------------------------------------------------------
(* UTF-8: String::into_bytes and std::str::from_utf8 (code points < 0x800) *)

RECURSIVE IntoBytes(_)
IntoBytes(text) ==
    IF text = <<>> THEN <<>>
    ELSE LET c == Head(text)
         IN  (IF c < 128 THEN <<c>>
              ELSE <<192 + (c \div 64), 128 + (c % 64)>>) \o IntoBytes(Tail(text))

RECURSIVE FromUtf8(_, _)
FromUtf8(bytes, acc) ==
    IF bytes = <<>> THEN [ok |-> TRUE, val |-> acc]
    ELSE LET b == Head(bytes)
         IN  IF b < 128 THEN FromUtf8(Tail(bytes), Append(acc, b))
             ELSE IF b >= 194 /\ b <= 223 /\ Len(bytes) >= 2
                     /\ bytes[2] >= 128 /\ bytes[2] <= 191
                  THEN FromUtf8(Tail(Tail(bytes)),
                                Append(acc, (b - 192) * 64 + (bytes[2] - 128)))
                  ELSE [ok |-> FALSE, err |-> "Utf8"]

----------------------------------------------------------------------------
(* The id column adapter: impl Encode / Decode for PokemonId *)

\* a plausible slip: the raw 20 bytes are written instead of the base62 text
EncodeRawBytes(raw) == raw

\* Encode::encode_by_ref: the bytes of the base62 text
EncodeByRef(raw) == IntoBytes(ToBase62(raw))

\* Decode::decode: bytes -> utf8 text -> Ksuid::from_base62, each step with `?`
Decode(bytes) ==
    LET s == FromUtf8(bytes, <<>>)
    IN  IF ~s.ok THEN [ok |-> FALSE, err |-> s.err]
        ELSE FromBase62(s.val)

----------------------------------------------------------------------------
(* Text constants, as code points *)

ChSlash == 47

\* "Squirtle"
NameSquirtle == <<83, 113, 117, 105, 114, 116, 108, 101>>
\* "Ho Oh"
NameHoOh == <<72, 111, 32, 79, 104>>
\* "Ho-Oh"
NameHoOhHyphen == <<72, 111, 45, 79, 104>>
\* "squirtle"
SlugSquirtle == <<115, 113, 117, 105, 114, 116, 108, 101>>
\* "ho-oh"
SlugHoOh == <<104, 111, 45, 111, 104>>
\* "bulbasaur"
SlugBulbasaur == <<98, 117, 108, 98, 97, 115, 97, 117, 114>>
\* "missingno"
SlugMissing == <<109, 105, 115, 115, 105, 110, 103, 110, 111>>
\* "/api/pokemon/"
ApiPrefix == <<47, 97, 112, 105, 47, 112, 111, 107, 101, 109, 111, 110, 47>>

----------------------------------------------------------------------------
(* Inflector's to_kebab_case, on ASCII *)

IsUpper(c) == c >= ChUpperA /\ c <= ChUpperA + 25
IsLower(c) == c >= ChLowerA /\ c <= ChLowerA + 25
IsDigit(c) == c >= ChZero /\ c <= ChZero + 9
IsAlnum(c) == IsUpper(c) \/ IsLower(c) \/ IsDigit(c)
ToLower(c) == IF IsUpper(c) THEN c + (ChLowerA - ChUpperA) ELSE c

\* s without its trailing separators
RECURSIVE TrimRight(_)
TrimRight(s) ==
    IF s = <<>> THEN <<>>
    ELSE IF IsAlnum(s[Len(s)]) THEN s ELSE TrimRight(SubSeq(s, 1, Len(s) - 1))

\* an upper-case letter next to a lower-case one starts a new word
NextOrPrevIsLower(s, i) ==
    \/ (i + 1 <= Len(s) /\ IsLower(s[i + 1]))
    \/ (i - 1 >= 1 /\ IsLower(s[i - 1]))

RECURSIVE SnakeLike(_, _, _, _, _)
SnakeLike(whole, t, i, first, acc) ==
    IF i > Len(t) THEN acc
    ELSE LET c == t[i]
         IN  IF ~IsAlnum(c)
             THEN SnakeLike(whole, t, i + 1, TRUE,
                            IF first THEN acc ELSE Append(acc, 45))
             ELSE IF ~first /\ IsUpper(c) /\ NextOrPrevIsLower(whole, i)
             THEN SnakeLike(whole, t, i + 1, FALSE, acc \o <<45, ToLower(c)>>)
             ELSE SnakeLike(whole, t, i + 1, FALSE, Append(acc, ToLower(c)))

ToKebabCase(name) == SnakeLike(name, TrimRight(name), 1, TRUE, <<>>)

----------------------------------------------------------------------------
(* Reading a CSV record into PokemonCsv, and PokemonTableRow::from *)

\* pokedex_id is handed over unconverted to a u16 field
U16_MAX == 65535
\* the PokemonCsv fields widened with .into() are u8
U8_MAX == 255

\* serde reading one numeric cell into an unsigned field of the given maximum
ParseUnsigned(v, max) ==
    IF v >= 0 /\ v <= max THEN [ok |-> TRUE, val |-> v]
    ELSE [ok |-> FALSE, err |-> "Deserialize"]

\* the record's cells deserialized into PokemonCsv
Deserialize(c) ==
    LET pid == ParseUnsigned(c.pokedex_id, U16_MAX)
        hp  == ParseUnsigned(c.hp, U8_MAX)
    IN  IF ~pid.ok \/ ~hp.ok THEN [ok |-> FALSE, err |-> "Deserialize"]
        ELSE [ok |-> TRUE,
              val |-> [name |-> c.name, pokedex_id |-> pid.val, hp |-> hp.val,
                       is_legendary_or_mythical |-> c.is_legendary_or_mythical,
                       abilities |-> c.abilities, typing |-> c.typing,
                       egg_groups |-> c.egg_groups, evolves_from |-> c.evolves_from]]

\* u16::from(u8): lossless widening
U16From(v) == v

\* a plausible slip: the 16-bit field narrowed through an 8-bit cast
TransformNarrowing(p, tseed, pseed) ==
    [id |-> PokemonIdNew(tseed, pseed),
     slug |-> ToKebabCase(p.name),
     name |-> p.name,
     pokedex_id |-> p.pokedex_id % 256,
     hp |-> U16From(p.hp),
     legendary_or_mythical |-> p.is_legendary_or_mythical]

\* a plausible slip: a dropped field finds its way into the row
TransformLeaking(p, tseed, pseed) ==
    [id |-> PokemonIdNew(tseed, pseed),
     slug |-> ToKebabCase(IF p.evolves_from # <<>> THEN p.evolves_from ELSE p.name),
     name |-> p.name,
     pokedex_id |-> p.pokedex_id,
     hp |-> U16From(p.hp),
     legendary_or_mythical |-> p.is_legendary_or_mythical]

\* From<PokemonCsv> for PokemonTableRow; abilities, typing, egg_groups and
\* evolves_from are bound to _ and dropped
Transform(p, tseed, pseed) ==
    [id |-> PokemonIdNew(tseed, pseed),
     slug |-> ToKebabCase(p.name),
     name |-> p.name,
     pokedex_id |-> p.pokedex_id,
     hp |-> U16From(p.hp),
     legendary_or_mythical |-> p.is_legendary_or_mythical]

----------------------------------------------------------------------------
(* Table pokemon and insert_pokemon *)

\* a plausible slip: two positional parameters of the INSERT swapped
BindParamsSwapped(r) ==
    [id |-> EncodeByRef(r.id), slug |-> r.name, name |-> r.slug,
     pokedex_id |-> r.pokedex_id, hp |-> r.hp,
     legendary_or_mythical |-> r.legendary_or_mythical]

\* the values bound to the INSERT's columns, the id through Encode::encode_by_ref
BindParams(r) ==
    [id |-> EncodeByRef(r.id), slug |-> r.slug, name |-> r.name,
     pokedex_id |-> r.pokedex_id, hp |-> r.hp,
     legendary_or_mythical |-> r.legendary_or_mythical]

\* what can go wrong in the store whatever the statement is
Faults == {"none", "Io", "PoolTimedOut"}

\* The store executing one INSERT: the statement either adds the whole row or
\* fails and adds nothing; id is the primary key and slug is unique.
StoreExecute(table, cols, fault) ==
    IF fault # "none" THEN [res |-> [ok |-> FALSE, err |-> fault], table |-> table]
    ELSE IF \E r \in table : r.id = cols.id \/ r.slug = cols.slug
    THEN [res |-> [ok |-> FALSE, err |-> "UniqueViolation"], table |-> table]
    ELSE [res |-> [ok |-> TRUE, err |-> "none"], table |-> table \cup {cols}]

\* a plausible slip: the statement is issued again when it failed
InsertPokemonRetrying(table, r, fault) ==
    LET a == StoreExecute(table, BindParams(r), fault)
        b == StoreExecute(a.table, BindParams(r), "none")
    IN  IF a.res.ok THEN [result |-> a.res, table |-> a.table, issued |-> 1]
        ELSE [result |-> b.res, table |-> b.table, issued |-> 2]

\* a plausible slip: the store's error is dropped instead of returned
InsertPokemonSwallowing(table, r, fault) ==
    LET x == StoreExecute(table, BindParams(r), fault)
    IN  [result |-> [ok |-> TRUE, err |-> "none"], table |-> x.table, issued |-> 1]

\* insert_pokemon: one INSERT, executed once, its result returned as it is
InsertPokemonCall(table, r, fault) ==
    LET x == StoreExecute(table, BindParams(r), fault)
    IN  [result |-> x.res, table |-> x.table, issued |-> 1]

----------------------------------------------------------------------------
(* The lookup handler *)

NoBody == [none |-> TRUE]
EmptyPokemonBody == [error |-> "searched for empty pokemon"]

\* path.split("/").last(): the text after the last '/', always Some
RECURSIVE AfterLastSlash(_, _)
AfterLastSlash(s, i) ==
    IF i = 0 THEN s
    ELSE IF s[i] = ChSlash THEN SubSeq(s, i + 1, Len(s))
    ELSE AfterLastSlash(s, i - 1)

SplitLast(path) == [some |-> TRUE, val |-> AfterLastSlash(path, Len(path))]

Response(status, body, issued, touched) ==
    [kind |-> "Ok", status |-> status, body |-> body, err |-> "none",
     issued |-> issued, pool_accessed |-> touched]
Failure(err, issued, touched) ==
    [kind |-> "Err", status |-> 0, body |-> NoBody, err |-> err,
     issued |-> issued, pool_accessed |-> touched]
Panic(msg, issued, touched) ==
    [kind |-> "Panic", status |-> 0, body |-> NoBody, err |-> msg,
     issued |-> issued, pool_accessed |-> touched]

\* the SELECT ... WHERE slug = ? run by fetch_one and read into PokemonHp
FetchOne(table, slug, fault) ==
    IF fault # "none" THEN [ok |-> FALSE, err |-> fault]
    ELSE LET hits == {r \in table : r.slug = slug}
         IN  IF hits = {} THEN [ok |-> FALSE, err |-> "RowNotFound"]
             ELSE LET r  == CHOOSE x \in hits : TRUE
                      id == Decode(r.id)
                  IN  IF ~id.ok THEN [ok |-> FALSE, err |-> "ColumnDecode"]
                      ELSE [ok |-> TRUE,
                            val |-> [id |-> id.val, name |-> r.name, hp |-> r.hp,
                                     legendary_or_mythical |-> r.legendary_or_mythical]]

\* serde_json::to_string(&PokemonHp): the id through Serialize for PokemonId
ToJson(p) ==
    [id |-> ToBase62(p.id), name |-> p.name, hp |-> p.hp,
     legendary_or_mythical |-> p.legendary_or_mythical]

\* the rest of the handler once the requested pokemon is known
Dispatch(requested, ready, table, fault) ==
    IF requested.some /\ requested.val = <<>>
    THEN Response(400, EmptyPokemonBody, 0, FALSE)
    ELSE IF ~requested.some
    THEN Panic("requested_pokemon is None, which should never happen", 0, FALSE)
    ELSE IF ~ready THEN Panic("Static pool is not initalized", 0, TRUE)
    ELSE LET got == FetchOne(table, requested.val, fault)
         IN  IF ~got.ok THEN Failure(got.err, 1, TRUE)
             ELSE Response(200, ToJson(got.val), 1, TRUE)

\* a plausible slip: the pool is fetched before the path is looked at
HandlerPoolFirst(path, ready, table, fault) ==
    IF ~path.some THEN Panic("expect there to always be an event path", 0, FALSE)
    ELSE IF ~ready THEN Panic("Static pool is not initalized", 0, TRUE)
    ELSE Dispatch(SplitLast(path.val), ready, table, fault)

\* handler
Handler(path, ready, table, fault) ==
    IF ~path.some THEN Panic("expect there to always be an event path", 0, FALSE)
    ELSE Dispatch(SplitLast(path.val), ready, table, fault)

----------------------------------------------------------------------------
(* Idle values of the parts a specification does not exercise *)

NoResult == [ok |-> FALSE, err |-> "NotRun"]
NoCells == [name |-> <<>>, pokedex_id |-> 0, hp |-> 0,
            is_legendary_or_mythical |-> FALSE, abilities |-> <<>>,
            typing |-> <<>>, egg_groups |-> <<>>, evolves_from |-> <<>>]

CodecIdle ==
    /\ kid = <<>>
    /\ column = <<>>
    /\ decoded = NoResult
    /\ cstep = "idle"

IngestIdle ==
    /\ cells = NoCells
    /\ csv = NoResult
    /\ trow = NoResult
    /\ tstep = "idle"

StoreIdle ==
    /\ rows = {}
    /\ inserted = {}
    /\ pool = FALSE
    /\ last = [op |-> "none"]

PairIdle == pair = [step |-> "idle"]

----------------------------------------------------------------------------
(* Codec specification: generate, encode, decode *)

\* column contents that were not written by encode_by_ref
CorruptColumns ==
    { <<255, 254>>,
      [i \in 1..BASE62_LEN |-> IF i = 3 THEN 32 ELSE ChZero + 1],
      [i \in 1..BASE62_LEN |-> IF i = 5 THEN 200 ELSE ChUpperA] }

CodecInit == CodecIdle /\ IngestIdle /\ StoreIdle /\ PairIdle

NewId ==
    /\ cstep \in {"idle", "decoded", "corrupt"}
    /\ \E t \in 0..MaxTsSeed, p \in 0..MaxPaySeed : kid' = PokemonIdNew(t, p)
    /\ cstep' = "new"
    /\ UNCHANGED <<column, decoded, ingestVars, storeVars, pairVars>>

EncodeId ==
    /\ cstep = "new"
    /\ column' = EncodeByRef(kid)
    /\ cstep' = "encoded"
    /\ UNCHANGED <<kid, decoded, ingestVars, storeVars, pairVars>>

DecodeId ==
    /\ cstep = "encoded"
    /\ decoded' = Decode(column)
    /\ cstep' = "decoded"
    /\ UNCHANGED <<kid, column, ingestVars, storeVars, pairVars>>

DecodeCorrupt ==
    /\ cstep \in {"idle", "decoded"}
    /\ \E c \in CorruptColumns :
          /\ column' = c
          /\ decoded' = Decode(c)
    /\ cstep' = "corrupt"
    /\ UNCHANGED <<kid, ingestVars, storeVars, pairVars>>

CodecNext == NewId \/ EncodeId \/ DecodeId \/ DecodeCorrupt

SpecCodec == CodecInit /\ [][CodecNext]_vars

----------------------------------------------------------------------------
(* Ingest specification: a CSV record is read, deserialized, transformed *)

CellSamples ==
    [name : {NameSquirtle, NameHoOh, NameHoOhHyphen},
     pokedex_id : {7, 65535, 65536, 70000},
     hp : {44, 255, 256},
     is_legendary_or_mythical : BOOLEAN,
     abilities : {<<>>, <<"torrent", "rain-dish">>},
     typing : {<<"water">>},
     egg_groups : {<<"monster", "water1">>},
     evolves_from : {<<>>, NameSquirtle}]

IngestInit == CodecIdle /\ IngestIdle /\ StoreIdle /\ PairIdle

ReadRecord ==
    /\ tstep \in {"idle", "failed", "transformed"}
    /\ cells' \in CellSamples
    /\ csv' = NoResult
    /\ trow' = NoResult
    /\ tstep' = "read"
    /\ UNCHANGED <<codecVars, storeVars, pairVars>>

ParseRecord ==
    /\ tstep = "read"
    /\ csv' = Deserialize(cells)
    /\ tstep' = IF csv'.ok THEN "parsed" ELSE "failed"
    /\ UNCHANGED <<cells, trow, codecVars, storeVars, pairVars>>

TransformRecord ==
    /\ tstep = "parsed"
    /\ \E p \in 0..RowPaySeed :
          trow' = [ok |-> TRUE, val |-> Transform(csv.val, RowClockSeed, p)]
    /\ tstep' = "transformed"
    /\ UNCHANGED <<cells, csv, codecVars, storeVars, pairVars>>

IngestNext == ReadRecord \/ ParseRecord \/ TransformRecord

SpecIngest == IngestInit /\ [][IngestNext]_vars

----------------------------------------------------------------------------
(* Store specification: rows are inserted, the handler looks them up *)

\* a row that did not come through insert_pokemon; its id column is not text
LegacyRow ==
    [id |-> <<255, 254>>, slug |-> SlugBulbasaur,
     name |-> <<66, 117, 108, 98, 97, 115, 97, 117, 114>>,
     pokedex_id |-> 1, hp |-> 45, legendary_or_mythical |-> FALSE]

CsvSamples ==
    { [name |-> NameSquirtle, pokedex_id |-> 7, hp |-> 44,
       is_legendary_or_mythical |-> FALSE, abilities |-> <<>>,
       typing |-> <<>>, egg_groups |-> <<>>, evolves_from |-> <<>>],
      [name |-> NameHoOh, pokedex_id |-> 250, hp |-> 106,
       is_legendary_or_mythical |-> TRUE, abilities |-> <<>>,
       typing |-> <<>>, egg_groups |-> <<>>, evolves_from |-> <<>>],
      [name |-> NameHoOhHyphen, pokedex_id |-> 250, hp |-> 106,
       is_legendary_or_mythical |-> TRUE, abilities |-> <<>>,
       typing |-> <<>>, egg_groups |-> <<>>, evolves_from |-> <<>>] }

None == [some |-> FALSE, val |-> <<>>]
Some(x) == [some |-> TRUE, val |-> x]

\* request paths: absent, empty, a bare slug, and /api/pokemon/<last segment>
Paths ==
    {None, Some(<<>>), Some(SlugSquirtle)}
    \cup {Some(ApiPrefix \o x) :
            x \in {SlugSquirtle, SlugHoOh, SlugBulbasaur, SlugMissing, <<>>, <<ChSlash>>}}

StoreInit ==
    /\ CodecIdle
    /\ IngestIdle
    /\ rows \in {{}, {LegacyRow}}
    /\ inserted = {}
    /\ pool = FALSE
    /\ last = [op |-> "none"]
    /\ PairIdle

\* main / setup_db: POOL.get_or_init
InitPool ==
    /\ ~pool
    /\ pool' = TRUE
    /\ UNCHANGED <<rows, inserted, last, codecVars, ingestVars, pairVars>>

\* a record is transformed and handed to insert_pokemon
InsertPokemon ==
    /\ \E p \in CsvSamples, ps \in 0..RowPaySeed, f \in Faults :
          LET r == Transform(p, RowClockSeed, ps)
              x == InsertPokemonCall(rows, r, f)
          IN  /\ rows' = x.table
              /\ inserted' = IF x.result.ok THEN inserted \cup {r} ELSE inserted
              /\ last' = [op |-> "insert", row |-> r, fault |-> f, before |-> rows,
                          result |-> x.result, issued |-> x.issued]
    /\ UNCHANGED <<pool, codecVars, ingestVars, pairVars>>

\* one request to the lambda
Lookup ==
    /\ \E path \in Paths, f \in {"none", "Io"} :
          last' = [op |-> "lookup", path |-> path, ready |-> pool, fault |-> f,
                   resp |-> Handler(path, pool, rows, f)]
    /\ UNCHANGED <<rows, inserted, pool, codecVars, ingestVars, pairVars>>

StoreNext == InitPool \/ InsertPokemon \/ Lookup

SpecStore == StoreInit /\ [][StoreNext]_vars

----------------------------------------------------------------------------
(* Pair specification: two CSV records are read, deserialized and          *)
(* transformed side by side; the second is the first with its dropped      *)
(* fields, and possibly its name, drawn afresh.                            *)

TagSamples == {<<>>, <<"torrent", "rain-dish">>}
LineageSamples == {<<>>, NameSquirtle, NameHoOh}

PairInit == CodecIdle /\ IngestIdle /\ StoreIdle /\ PairIdle

ReadPair ==
    /\ pair.step = "idle"
    /\ \E a \in CellSamples,
          n \in {NameSquirtle, NameHoOh, NameHoOhHyphen},
          ab \in TagSamples, ty \in TagSamples, eg \in TagSamples,
          ev \in LineageSamples :
          pair' = [step |-> "read",
                   a |-> a,
                   b |-> [a EXCEPT !.name = n, !.abilities = ab, !.typing = ty,
                                   !.egg_groups = eg, !.evolves_from = ev],
                   pa |-> NoResult, pb |-> NoResult,
                   ra |-> NoResult, rb |-> NoResult]
    /\ UNCHANGED <<codecVars, ingestVars, storeVars>>

ParsePair ==
    /\ pair.step = "read"
    /\ LET pa == Deserialize(pair.a)
           pb == Deserialize(pair.b)
       IN  pair' = [pair EXCEPT !.pa = pa, !.pb = pb,
                                !.step = IF pa.ok /\ pb.ok THEN "parsed" ELSE "failed"]
    /\ UNCHANGED <<codecVars, ingestVars, storeVars>>

TransformPair ==
    /\ pair.step = "parsed"
    /\ \E sa \in 0..RowPaySeed, sb \in 0..RowPaySeed :
          pair' = [pair EXCEPT
                     !.ra = [ok |-> TRUE, val |-> Transform(pair.pa.val, RowClockSeed, sa)],
                     !.rb = [ok |-> TRUE, val |-> Transform(pair.pb.val, RowClockSeed, sb)],
                     !.step = "transformed"]
    /\ UNCHANGED <<codecVars, ingestVars, storeVars>>

PairNext == ReadPair \/ ParsePair \/ TransformPair

SpecPair == PairInit /\ [][PairNext]_vars

----------------------------------------------------------------------------
(* Claims about the id column codec (SpecCodec) *)

\* C1: for every identifier PokemonId::new can produce, decoding the bytes
\* that encode_by_ref wrote succeeds and yields the original identifier.
C1_StorageRoundTrip ==
    cstep = "decoded" => (decoded.ok /\ decoded.val = kid)

C1_Witness ==
    /\ cstep = "decoded"
    /\ decoded.ok
    /\ decoded.val = kid
    /\ kid[1] # 0
    /\ kid[BYTES] # 0

\* the big-endian value that the column's bytes spell as a base62 number
ColumnValue == StripZeros(Base62Value([i \in 1..Len(column) |-> Base62Digit(column[i])], <<>>))

----------------------------------------------------------------------------
(* Claims about the row transform (SpecIngest) *)

CellOutOfRange == cells.pokedex_id > U16_MAX \/ cells.hp > U8_MAX
RecordDone == tstep \in {"failed", "transformed"}

----------------------------------------------------------------------------
(* Claims about insert_pokemon and the handler (SpecStore) *)

IsLookup == last.op = "lookup"
IsInsert == last.op = "insert"

\* the text after the last '/' is empty: the path is empty or ends in '/'
EndsInEmptySegment(path) == path = <<>> \/ path[Len(path)] = ChSlash

\* the slug a lookup asked for: the path from after its last '/'
RequestedSlug(path) ==
    LET cut == CHOOSE i \in 0..Len(path) :
                  /\ (i = 0 \/ path[i] = ChSlash)
                  /\ \A j \in (i + 1)..Len(path) : path[j] # ChSlash
    IN  SubSeq(path, cut + 1, Len(path))

\* C3: a lookup by a non-empty slug that matches no stored row is answered
\* with a "not found" outcome and not reported as an error.
C3_UnknownSlugIsNotAnError ==
    ( /\ IsLookup
      /\ last.path.some
      /\ ~EndsInEmptySegment(last.path.val)
      /\ last.ready
      /\ last.fault = "none"
      /\ \A r \in rows : r.slug # RequestedSlug(last.path.val) )
    => last.resp.kind = "Ok"

\* C4: a request whose path ends in an empty final segment gets status 400
\* with body {"error":"searched for empty pokemon"}; no query is issued and
\* the pool is not touched, initialised or not.
C4_EmptySegmentRejected ==
    (IsLookup /\ last.path.some /\ EndsInEmptySegment(last.path.val)) =>
        /\ last.resp.kind = "Ok"
        /\ last.resp.status = 400
        /\ last.resp.body = [error |-> "searched for empty pokemon"]
        /\ last.resp.issued = 0
        /\ ~last.resp.pool_accessed

C4_Witness ==
    /\ IsLookup
    /\ last.path = Some(ApiPrefix \o <<ChSlash>>)
    /\ ~last.ready
    /\ last.resp.status = 400
    /\ last.resp.issued = 0

\* C5: the handler never panics, whatever the request and the store state.
C5_HandlerNeverPanics ==
    IsLookup => last.resp.kind # "Panic"

\* what C6 promises of a lookup by the slug of an inserted row
AnswersWith(r) ==
    /\ last.resp.kind = "Ok"
    /\ last.resp.status = 200
    /\ last.resp.body.name = r.name
    /\ last.resp.body.hp = r.hp
    /\ last.resp.body.legendary_or_mythical = r.legendary_or_mythical
    /\ Len(last.resp.body.id) = BASE62_LEN
    /\ Base62Parse(last.resp.body.id).ok

LooksUp(r) ==
    /\ IsLookup
    /\ last.path.some
    /\ r.slug # <<>>
    /\ RequestedSlug(last.path.val) = r.slug

Duplicates(table, r) ==
    \E x \in table : x.slug = r.slug \/ x.id = IntoBytes(Base62Text(r.id))

\* C9: no two stored rows share a slug or an identifier; an insert whose slug
\* or identifier duplicates a stored row's returns an error to the caller and
\* leaves the stored rows as they were.
C9_SlugAndIdUnique ==
    /\ \A a, b \in rows : (a # b) => (a.slug # b.slug /\ a.id # b.id)
    /\ (IsInsert /\ Duplicates(last.before, last.row)) =>
          (~last.result.ok /\ rows = last.before)

C9_Witness ==
    /\ IsInsert
    /\ last.fault = "none"
    /\ \E x \in last.before : x.slug = last.row.slug /\ x.name # last.row.name
    /\ \E x \in last.before : x.slug # last.row.slug
    /\ ~last.result.ok
    /\ rows = last.before

\* C10: a call to insert_pokemon issues exactly one statement; a failure of
\* the store is returned to the caller as it is, with no second attempt, and
\* a failed call stores no part of the row.
C10_OneStatementNoRetry ==
    IsInsert =>
        /\ last.issued = 1
        /\ (last.fault # "none") => (~last.result.ok /\ last.result.err = last.fault)
        /\ (last.fault = "none" /\ Duplicates(last.before, last.row)) =>
              (~last.result.ok /\ last.result.err = "UniqueViolation")
        /\ (~last.result.ok) => rows = last.before
        /\ last.result.ok => (Cardinality(rows) = Cardinality(last.before) + 1
                              /\ last.before \subseteq rows)

C10_Witness ==
    /\ IsInsert
    /\ last.fault = "PoolTimedOut"
    /\ ~Duplicates(last.before, last.row)
    /\ last.issued = 1
    /\ last.result = [ok |-> FALSE, err |-> "PoolTimedOut"]
    /\ rows = last.before

----------------------------------------------------------------------------
(* Claim about two records that differ in dropped fields only (SpecPair) *)

\* the two raw records agree on the display name and on every stored field
AgreeOnStored(a, b) ==
    /\ a.name = b.name
    /\ a.pokedex_id = b.pokedex_id
    /\ a.hp = b.hp
    /\ a.is_legendary_or_mythical = b.is_legendary_or_mythical

\* they differ in a dropped field
DifferInDropped(a, b) ==
    \/ a.abilities # b.abilities
    \/ a.typing # b.typing
    \/ a.egg_groups # b.egg_groups
    \/ a.evolves_from # b.evolves_from

\* a row without its identifier
StoredPart(r) ==
    [slug |-> r.slug, name |-> r.name, pokedex_id |-> r.pokedex_id, hp |-> r.hp,
     legendary_or_mythical |-> r.legendary_or_mythical]

\* C11: two raw records that agree on the display name and on every stored
\* field, and differ at most in abilities, typing, egg_groups, evolves_from,
\* are transformed into rows with the same slug and the same stored values;
\* only the identifier may differ.
C11_DroppedFieldsDoNotMatter ==
    (pair.step = "transformed" /\ AgreeOnStored(pair.a, pair.b)) =>
        /\ pair.ra.ok
        /\ pair.rb.ok
        /\ pair.ra.val.slug = pair.rb.val.slug
        /\ StoredPart(pair.ra.val) = StoredPart(pair.rb.val)

C11_Witness ==
    /\ pair.step = "transformed"
    /\ AgreeOnStored(pair.a, pair.b)
    /\ pair.a.abilities # pair.b.abilities
    /\ pair.a.typing # pair.b.typing
    /\ pair.a.egg_groups # pair.b.egg_groups
    /\ pair.a.evolves_from # pair.b.evolves_from
    /\ pair.ra.val.id # pair.rb.val.id
    /\ pair.ra.val.slug = SlugHoOh
    /\ StoredPart(pair.ra.val) = StoredPart(pair.rb.val)

====
